---- MODULE Spec2Model ----
(***************************************************************************)
(* RedactAI: the text-processing engine of src/utils/textUtils.ts and the  *)
(* processText pipeline of the redaction panel.                            *)
(*                                                                         *)
(* Strings are sequences of one-character strings; offsets are 0-based as  *)
(* in the source, sequence indices are 1-based (offset k is index k + 1).  *)
(***************************************************************************)
EXTENDS Integers, Sequences, FiniteSets, TLC

VARIABLES
    call,   \* a call of one of the pure functions: its arguments and result
    ar,     \* the activation of a step-by-step applyRedaction call
    panel,  \* the useState values of RedactionPanel
    run     \* the processText call in progress: its closure and its await

vars == <<call, ar, panel, run>>

(***************************************************************************)
(* Generic helpers                                                         *)
(***************************************************************************)
Max(a, b) == IF a >= b THEN a ELSE b

Min(a, b) == IF a <= b THEN a ELSE b

\* the least element of a non-empty set of integers
MinOf(S) == CHOOSE x \in S : \A y \in S : x <= y

SeqsUpTo(S, n) == UNION {[1..k -> S] : k \in 0..n}

Range(s) == {s[k] : k \in DOMAIN s}

\* s.slice(from, to) with 0-based half-open offsets
Slice(s, from, to) == SubSeq(s, from + 1, to)

(***************************************************************************)
(* types.ts                                                                *)
(***************************************************************************)
EntityType ==
    {"PERSON", "LOCATION", "EMAIL_ADDRESS", "IP_ADDRESS", "PHONE_NUMBER",
     "CREDIT_CARD", "DATE_TIME", "URL"}

\* the characters of an EntityType value, as template literals spell them
TypeChars(type) ==
    CASE type = "PERSON" -> <<"P", "E", "R", "S", "O", "N">>
      [] type = "LOCATION" -> <<"L", "O", "C", "A", "T", "I", "O", "N">>
      [] type = "EMAIL_ADDRESS" ->
            <<"E", "M", "A", "I", "L", "_", "A", "D", "D", "R", "E", "S", "S">>
      [] type = "IP_ADDRESS" -> <<"I", "P", "_", "A", "D", "D", "R", "E", "S", "S">>
      [] type = "PHONE_NUMBER" ->
            <<"P", "H", "O", "N", "E", "_", "N", "U", "M", "B", "E", "R">>
      [] type = "CREDIT_CARD" -> <<"C", "R", "E", "D", "I", "T", "_", "C", "A", "R", "D">>
      [] type = "DATE_TIME" -> <<"D", "A", "T", "E", "_", "T", "I", "M", "E">>
      [] type = "URL" -> <<"U", "R", "L">>

RedactionMode == {"REMOVE", "MASK"}

(***************************************************************************)
(* calculateLevenshteinDistance: the table track[j][i] is built row by row *)
(* (j over s2, i over s1); a row is the sequence track[j][0..s1.length].   *)
(***************************************************************************)
\* track[0][i] = i
\* a first row left at the zeros the table is filled with
MutLevFirstRow(s1) == [k \in 1..(Len(s1) + 1) |-> 0]

LevFirstRow(s1) == [k \in 1..(Len(s1) + 1) |-> k - 1]

\* a substitution that is charged even when the characters are equal
MutIndicator(c1, c2) == 1

\* indicator = s1[i - 1] === s2[j - 1] ? 0 : 1
Indicator(c1, c2) == IF c1 = c2 THEN 0 ELSE 1

\* the inner loop over i for one j: row holds track[j][0..i-1], prev is track[j-1]
RECURSIVE LevRow(_, _, _, _)
LevRow(s1, c2, prev, row) ==
    IF Len(row) > Len(s1) THEN row
    ELSE LET i == Len(row)
             cell == Min(Min(row[i] + 1, prev[i + 1] + 1),
                         prev[i] + Indicator(s1[i], c2))
         IN  LevRow(s1, c2, prev, Append(row, cell))

\* the outer loop over j; track[j][0] = j (a row is never empty: the test of
\* Len(prev) only makes the evaluator finish a row before it starts the next)
RECURSIVE LevRows(_, _, _, _)
LevRows(s1, s2, j, prev) ==
    IF j > Len(s2) \/ Len(prev) = 0 THEN prev
    ELSE LevRows(s1, s2, j + 1, LevRow(s1, s2[j], prev, <<j>>))

calculateLevenshteinDistance(s1, s2) ==
    LevRows(s1, s2, 1, LevFirstRow(s1))[Len(s1) + 1]

(***************************************************************************)
(* calculateSimilarity returns a double; it is kept as the exact fraction  *)
(* num / den (den > 0).  For string lengths a program can hold the double  *)
(* is 100 exactly when the fraction is, and below 100 otherwise.           *)
(***************************************************************************)
\* Math.max(0, q) on a fraction
RatMax0(q) == IF q.num < 0 THEN [num |-> 0, den |-> 1] ELSE q

\* the percentage taken over the shorter of the two strings
MutSimilarity(original, redacted, distance) ==
    LET minLength == Min(Len(original), Len(redacted))
    IN  IF minLength = 0 THEN [num |-> 100, den |-> 1]
        ELSE [num |-> (minLength - distance) * 100, den |-> minLength]

calculateSimilarity(original, redacted, distance) ==
    LET maxLength == Max(Len(original), Len(redacted))
    IN  IF maxLength = 0 THEN [num |-> 100, den |-> 1]
        ELSE RatMax0([num |-> (maxLength - distance) * 100, den |-> maxLength])

RatGeq0(q) == q.num >= 0

RatLeq100(q) == q.num <= 100 * q.den

RatIs100(q) == q.num = 100 * q.den

(***************************************************************************)
(* String.prototype.trim                                                   *)
(***************************************************************************)
WhiteSpace == {" ", "\t", "\n", "\r"}

\* the index of the first character from i on that is no white space
RECURSIVE TrimStart(_, _)
TrimStart(s, i) ==
    IF i > Len(s) \/ s[i] \notin WhiteSpace THEN i ELSE TrimStart(s, i + 1)

\* the index of the last character up to j that is no white space
RECURSIVE TrimEnd(_, _)
TrimEnd(s, j) ==
    IF j < 1 \/ s[j] \notin WhiteSpace THEN j ELSE TrimEnd(s, j - 1)

Trim(s) == SubSeq(s, TrimStart(s, 1), TrimEnd(s, Len(s)))

(***************************************************************************)
(* updateStats: the ProcessingStats record handed to setStats.             *)
(* accuracyScore is an optional field: absent when expected.trim() is "".  *)
(***************************************************************************)
updateStats(original, redacted, expected, entityCount) ==
    LET dist == calculateLevenshteinDistance(original, redacted)
        similarity == calculateSimilarity(original, redacted, dist)
        base == [originalLength |-> Len(original),
                 redactedLength |-> Len(redacted),
                 levenshteinDistance |-> dist,
                 similarityScore |-> similarity,
                 entityCount |-> entityCount]
    IN  IF Trim(expected) # <<>>
        THEN LET accDist == calculateLevenshteinDistance(expected, redacted)
             IN  [accuracyScore |-> calculateSimilarity(expected, redacted, accDist)]
                 @@ base
        ELSE base

(***************************************************************************)
(* mergeEntities                                                           *)
(***************************************************************************)
\* deduplication that also compares the category
MutMergeKeep(aiEntities, re) ==
    ~ \E k \in DOMAIN aiEntities :
        aiEntities[k].text = re.text /\ aiEntities[k].type = re.type

\* !aiTexts.has(re.text), aiTexts = new Set(aiEntities.map(e => e.text))
MergeKeep(aiEntities, re) ==
    LET aiTexts == {aiEntities[k].text : k \in DOMAIN aiEntities}
    IN  re.text \notin aiTexts

\* regexEntities.forEach(re => ...) from position k on, merged so far
RECURSIVE MergeLoop(_, _, _, _)
MergeLoop(aiEntities, regexEntities, k, merged) ==
    IF k > Len(regexEntities) THEN merged
    ELSE MergeLoop(aiEntities, regexEntities, k + 1,
                   IF MergeKeep(aiEntities, regexEntities[k])
                   THEN Append(merged, regexEntities[k]) ELSE merged)

mergeEntities(aiEntities, regexEntities) ==
    MergeLoop(aiEntities, regexEntities, 1, aiEntities)

(***************************************************************************)
(* applyRedaction                                                          *)
(***************************************************************************)
\* String.prototype.indexOf(searchString, position): the position is clamped
\* to [0, length], so an empty searchString is found at min(position, length)
IndexOf(text, searchString, position) ==
    LET from == Min(Max(position, 0), Len(text))
        hits == {i \in from..(Len(text) - Len(searchString)) :
                    Slice(text, i, i + Len(searchString)) = searchString}
    IN  IF hits = {} THEN -1 ELSE MinOf(hits)

\* an ascending sort by text length
MutSortedBefore(a, b) == Len(a.text) <= Len(b.text)

\* (a, b) => b.text.length - a.text.length: a stays before b unless b is longer
SortedBefore(a, b) == Len(a.text) >= Len(b.text)

\* Array.prototype.sort is stable: x goes after the last element it may follow
RECURSIVE InsertSorted(_, _)
InsertSorted(sorted, x) ==
    IF sorted = <<>> THEN <<x>>
    ELSE LET last == sorted[Len(sorted)]
         IN  IF SortedBefore(last, x) THEN Append(sorted, x)
             ELSE Append(InsertSorted(SubSeq(sorted, 1, Len(sorted) - 1), x), last)

RECURSIVE SortLoop(_, _, _)
SortLoop(entities, k, sorted) ==
    IF k > Len(entities) THEN sorted
    ELSE SortLoop(entities, k + 1, InsertSorted(sorted, entities[k]))

\* [...entities].sort((a, b) => b.text.length - a.text.length)
SortedEntities(entities) == SortLoop(entities, 1, <<>>)

\* an overlap test that only looks at the start of the occurrence
MutIsOverlap(processedEntities, foundIndex, length) ==
    \E k \in DOMAIN processedEntities :
        /\ foundIndex < processedEntities[k].endIndex
        /\ foundIndex >= processedEntities[k].startIndex

\* processedEntities.some(e => foundIndex < e.endIndex &&
\*                             foundIndex + entity.text.length > e.startIndex)
IsOverlap(processedEntities, foundIndex, length) ==
    \E k \in DOMAIN processedEntities :
        /\ foundIndex < processedEntities[k].endIndex
        /\ foundIndex + length > processedEntities[k].startIndex

\* { ...entity, startIndex: foundIndex, endIndex: foundIndex + entity.text.length }
Resolved(entity, foundIndex) ==
    [text |-> entity.text, type |-> entity.type,
     startIndex |-> foundIndex, endIndex |-> foundIndex + Len(entity.text)]

\* the body of the while loop for an occurrence at foundIndex
PushIfFree(processedEntities, entity, foundIndex) ==
    IF IsOverlap(processedEntities, foundIndex, Len(entity.text))
    THEN processedEntities
    ELSE Append(processedEntities, Resolved(entity, foundIndex))

\* mode === 'MASK' ? `[${entity.type}]` : ''
Replacement(entity, mode) ==
    IF mode = "MASK" THEN <<"[">> \o TypeChars(entity.type) \o <<"]">> ELSE <<>>

(***************************************************************************)
(* The RegExp built from the escaped entity text.  The pattern source is a *)
(* character sequence: a backslash makes the next character a literal, an  *)
(* unescaped dot matches any character but a line terminator, any other    *)
(* character matches itself.                                               *)
(***************************************************************************)
RegexMeta == {".", "*", "+", "?", "^", "$", "{", "}", "(", ")", "|", "[", "]", "\\"}

LineTerminators == {"\n", "\r"}

\* the entity text used as the pattern source as it is
MutEscapeRegExp(t) == t

\* entity.text.replace(/[.*+?^${}()|[\]\\]/g, '\\$&'), from index i on
RECURSIVE EscapeFrom(_, _)
EscapeFrom(t, i) ==
    IF i > Len(t) THEN <<>>
    ELSE (IF t[i] \in RegexMeta THEN <<"\\", t[i]>> ELSE <<t[i]>>) \o EscapeFrom(t, i + 1)

EscapeRegExp(t) == EscapeFrom(t, 1)

\* the atoms of a pattern source from index i on: [any |-> BOOLEAN, ch |-> character]
RECURSIVE AtomsFrom(_, _)
AtomsFrom(src, i) ==
    IF i > Len(src) THEN <<>>
    ELSE IF src[i] = "\\" /\ i < Len(src)
         THEN <<[any |-> FALSE, ch |-> src[i + 1]]>> \o AtomsFrom(src, i + 2)
         ELSE <<[any |-> src[i] = ".", ch |-> src[i]]>> \o AtomsFrom(src, i + 1)

PatternAtoms(src) == AtomsFrom(src, 1)

AtomMatches(atom, c) ==
    IF atom.any THEN c \notin LineTerminators ELSE c = atom.ch

\* does the pattern match the buffer at 0-based offset i
MatchesAt(buffer, atoms, i) ==
    /\ i + Len(atoms) <= Len(buffer)
    /\ \A k \in DOMAIN atoms : AtomMatches(atoms[k], buffer[i + k])

\* String.prototype.replace with a global RegExp, from offset i on: matches are
\* taken left to right and do not overlap; after an empty match the scan
\* advances by one character, which is copied
RECURSIVE ReplaceFrom(_, _, _, _)
ReplaceFrom(buffer, atoms, replacement, i) ==
    LET hits == {h \in i..Len(buffer) : MatchesAt(buffer, atoms, h)}
    IN  IF hits = {} THEN Slice(buffer, i, Len(buffer))
        ELSE LET h == MinOf(hits)
                 next == IF atoms = <<>> THEN h + 1 ELSE h + Len(atoms)
             IN  Slice(buffer, i, h) \o replacement
                 \o (IF atoms = <<>> THEN Slice(buffer, h, Min(h + 1, Len(buffer)))
                     ELSE <<>>)
                 \o (IF next > Len(buffer) THEN <<>>
                     ELSE ReplaceFrom(buffer, atoms, replacement, next))

\* currentText.replace(new RegExp(escapedText, 'g'), replacement)
ReplaceEntity(currentText, entity, mode) ==
    ReplaceFrom(currentText, PatternAtoms(EscapeRegExp(entity.text)),
                Replacement(entity, mode), 0)

\* a cleanup that trims and leaves the runs of spaces
MutCollapseSpaces(s) == s

\* replace(/ +/g, ' '): of every run of spaces one space stays, so the
\* characters kept are those that are not a space followed by a space
CollapseSpaces(s) ==
    LET kept == {i \in 1..Len(s) : ~ (s[i] = " " /\ i < Len(s) /\ s[i + 1] = " ")}
        nth(k) == CHOOSE i \in kept : Cardinality({j \in kept : j <= i}) = k
    IN  [k \in 1..Cardinality(kept) |-> s[nth(k)]]

\* a cleanup that collapses the spaces and does not trim
MutCleanup(currentText) == CollapseSpaces(currentText)

\* currentText.replace(/ +/g, ' ').trim()
Cleanup(currentText) == Trim(CollapseSpaces(currentText))

\* (a, b) => (a.startIndex || 0) - (b.startIndex || 0), stable
RECURSIVE InsertByStart(_, _)
InsertByStart(sorted, x) ==
    IF sorted = <<>> THEN <<x>>
    ELSE LET last == sorted[Len(sorted)]
         IN  IF last.startIndex <= x.startIndex THEN Append(sorted, x)
             ELSE Append(InsertByStart(SubSeq(sorted, 1, Len(sorted) - 1), x), last)

RECURSIVE SortByStartLoop(_, _, _)
SortByStartLoop(list, k, sorted) ==
    IF k > Len(list) THEN sorted
    ELSE SortByStartLoop(list, k + 1, InsertByStart(sorted, list[k]))

SortByStart(processedEntities) == SortByStartLoop(processedEntities, 1, <<>>)

(***************************************************************************)
(* applyRedaction as one call.  hang is TRUE when a while loop of lines    *)
(* 62-79 comes back to the searchIndex it started an iteration with: the   *)
(* loop then repeats that iteration for ever and the call never returns.   *)
(***************************************************************************)
RECURSIVE ScanLoop(_, _, _, _)
ScanLoop(text, entity, searchIndex, processedEntities) ==
    LET foundIndex == IndexOf(text, entity.text, searchIndex)
    IN  IF foundIndex = -1
        THEN [hang |-> FALSE, processedEntities |-> processedEntities]
        ELSE IF foundIndex + 1 <= searchIndex
             THEN [hang |-> TRUE, processedEntities |-> processedEntities]
             ELSE ScanLoop(text, entity, foundIndex + 1,
                           PushIfFree(processedEntities, entity, foundIndex))

\* sortedEntities.forEach from entity k on
RECURSIVE ForEachEntity(_, _, _, _, _, _)
ForEachEntity(text, sortedEntities, k, mode, currentText, processedEntities) ==
    IF k > Len(sortedEntities)
    THEN [hang |-> FALSE, currentText |-> currentText,
          processedEntities |-> processedEntities]
    ELSE LET scan == ScanLoop(text, sortedEntities[k], 0, processedEntities)
         IN  IF scan.hang THEN [hang |-> TRUE]
             ELSE ForEachEntity(text, sortedEntities, k + 1, mode,
                                ReplaceEntity(currentText, sortedEntities[k], mode),
                                scan.processedEntities)

applyRedaction(text, entities, mode) ==
    LET loop == ForEachEntity(text, SortedEntities(entities), 1, mode, text, <<>>)
    IN  IF loop.hang THEN [hang |-> TRUE]
        ELSE [hang |-> FALSE,
              redactedText |-> Cleanup(loop.currentText),
              entitiesWithIndices |-> SortByStart(loop.processedEntities)]

(***************************************************************************)
(* Regular expressions, as the backtracking matcher of the language runs   *)
(* them.  A pattern is a tree: Chr(S) matches one character of S, Cat the  *)
(* concatenation, Rep a greedy bounded repetition, RepFrom a greedy        *)
(* repetition without upper bound, WordB the assertion \b.                 *)
(* Ends(text, node, pos) is the sequence of offsets at which a match of    *)
(* node starting at offset pos can end, in the order in which backtracking *)
(* tries them; the match the matcher reports ends at the first one.        *)
(***************************************************************************)
Digit == {"0", "1", "2", "3", "4", "5", "6", "7", "8", "9"}

Lower ==
    {"a", "b", "c", "d", "e", "f", "g", "h", "i", "j", "k", "l", "m",
     "n", "o", "p", "q", "r", "s", "t", "u", "v", "w", "x", "y", "z"}

Upper ==
    {"A", "B", "C", "D", "E", "F", "G", "H", "I", "J", "K", "L", "M",
     "N", "O", "P", "Q", "R", "S", "T", "U", "V", "W", "X", "Y", "Z"}

AlphaNum == Lower \cup Upper \cup Digit

\* \w
WordChars == AlphaNum \cup {"_"}

\* \s
SpaceChars == {" ", "\t", "\n", "\r", "\f"}

Chr(S) == [op |-> "set", set |-> S]

Cat(items) == [op |-> "cat", items |-> items]

Rep(r, min, max) == [op |-> "rep", r |-> r, min |-> min, max |-> max, unbounded |-> FALSE]

RepFrom(r, min) == [op |-> "rep", r |-> r, min |-> min, max |-> min, unbounded |-> TRUE]

Opt(r) == Rep(r, 0, 1)

WordB == [op |-> "wb"]

IsWordAt(text, pos) == pos >= 0 /\ pos < Len(text) /\ text[pos + 1] \in WordChars

\* \b holds between offsets pos - 1 and pos
IsWordBoundary(text, pos) == IsWordAt(text, pos - 1) # IsWordAt(text, pos)

RECURSIVE Ends(_, _, _)
RECURSIVE CatEnds(_, _, _, _)
RECURSIVE CatOver(_, _, _, _, _)
RECURSIVE RepEnds(_, _, _, _)
RECURSIVE RepOver(_, _, _, _, _, _)

Ends(text, node, pos) ==
    CASE node.op = "set" ->
            IF pos < Len(text) /\ text[pos + 1] \in node.set THEN <<pos + 1>> ELSE <<>>
      [] node.op = "wb" -> IF IsWordBoundary(text, pos) THEN <<pos>> ELSE <<>>
      [] node.op = "cat" -> CatEnds(text, node.items, 1, pos)
      [] node.op = "rep" -> RepEnds(text, node, pos, 0)

\* items[k..] matched from pos
CatEnds(text, items, k, pos) ==
    IF k > Len(items) THEN <<pos>>
    ELSE CatOver(text, items, k, Ends(text, items[k], pos), 1)

CatOver(text, items, k, ends, j) ==
    IF j > Len(ends) THEN <<>>
    ELSE CatEnds(text, items, k + 1, ends[j]) \o CatOver(text, items, k, ends, j + 1)

\* greedy: one more repetition is tried before stopping after count of them
RepEnds(text, node, pos, count) ==
    (IF node.unbounded \/ count < node.max
     THEN RepOver(text, node, pos, count, Ends(text, node.r, pos), 1) ELSE <<>>)
    \o (IF count >= node.min THEN <<pos>> ELSE <<>>)

\* a repetition that matched the empty string is not repeated
RepOver(text, node, pos, count, ends, j) ==
    IF j > Len(ends) THEN <<>>
    ELSE (IF ends[j] > pos THEN RepEnds(text, node, ends[j], count + 1) ELSE <<>>)
         \o RepOver(text, node, pos, count, ends, j + 1)

\* regex.exec(text) with the g flag, lastIndex = from: the leftmost match at or
\* after from as <<start, end>>, or <<>> (null)
Exec(text, regex, from) ==
    LET starts == {i \in from..Len(text) : Ends(text, regex, i) # <<>>}
    IN  IF starts = {} THEN <<>>
        ELSE <<MinOf(starts), Ends(text, regex, MinOf(starts))[1]>>

\* while ((match = regex.exec(text)) !== null) ...: the matches as ranges.  None
\* of the patterns below matches the empty string, so lastIndex always advances
RECURSIVE ExecAll(_, _, _)
ExecAll(text, regex, lastIndex) ==
    LET match == Exec(text, regex, lastIndex)
    IN  IF match = <<>> \/ match[2] <= lastIndex - 1 THEN <<>>
        ELSE <<match>> \o ExecAll(text, regex, match[2])

(***************************************************************************)
(* detectRegexEntities                                                     *)
(***************************************************************************)
\* /[a-zA-Z0-9._%+-]+@[a-zA-Z0-9.-]+\.[a-zA-Z]{2,}/g
emailRegex ==
    Cat(<<RepFrom(Chr(AlphaNum \cup {".", "_", "%", "+", "-"}), 1),
          Chr({"@"}),
          RepFrom(Chr(AlphaNum \cup {".", "-"}), 1),
          Chr({"."}),
          RepFrom(Chr(Lower \cup Upper), 2)>>)

\* /\b(?:\d{1,3}\.){3}\d{1,3}\b/g
ipRegex ==
    Cat(<<WordB,
          Rep(Cat(<<Rep(Chr(Digit), 1, 3), Chr({"."})>>), 3, 3),
          Rep(Chr(Digit), 1, 3),
          WordB>>)

\* /https?:\/\/(?:www\.)?[-a-zA-Z0-9@:%._\+~#=]{1,256}\.[a-zA-Z0-9()]{1,6}\b
\*  (?:[-a-zA-Z0-9()@:%_\+.~#?&//=]*)/g
urlRegex ==
    Cat(<<Chr({"h"}), Chr({"t"}), Chr({"t"}), Chr({"p"}), Opt(Chr({"s"})),
          Chr({":"}), Chr({"/"}), Chr({"/"}),
          Opt(Cat(<<Chr({"w"}), Chr({"w"}), Chr({"w"}), Chr({"."})>>)),
          Rep(Chr(AlphaNum \cup {"-", "@", ":", "%", ".", "_", "+", "~", "#", "="}), 1, 256),
          Chr({"."}),
          Rep(Chr(AlphaNum \cup {"(", ")"}), 1, 6),
          WordB,
          RepFrom(Chr(AlphaNum \cup {"-", "(", ")", "@", ":", "%", "_", "+", ".", "~",
                                     "#", "?", "&", "/", "="}), 0)>>)

\* /\b(?:\d{4}[ -]?){3}\d{4}\b/g
ccRegex ==
    Cat(<<WordB,
          Rep(Cat(<<Rep(Chr(Digit), 4, 4), Opt(Chr({" ", "-"}))>>), 3, 3),
          Rep(Chr(Digit), 4, 4),
          WordB>>)

\* a phone pattern whose groups may only be separated by a space
MutPhoneRegex ==
    Cat(<<Opt(Cat(<<Opt(Chr({"+"})), Rep(Chr(Digit), 1, 3), Opt(Chr({" "}))>>)),
          Opt(Chr({"("})),
          Rep(Chr(Digit), 3, 3),
          Opt(Chr({")"})),
          Opt(Chr({" "})),
          Rep(Chr(Digit), 3, 3),
          Opt(Chr({" "})),
          Rep(Chr(Digit), 4, 4)>>)

\* /(?:\+?\d{1,3}[ -]?)?\(?\d{3}\)?[ -]?\d{3}[ -]?\d{4}/g
phoneRegex ==
    Cat(<<Opt(Cat(<<Opt(Chr({"+"})), Rep(Chr(Digit), 1, 3), Opt(Chr({" ", "-"}))>>)),
          Opt(Chr({"("})),
          Rep(Chr(Digit), 3, 3),
          Opt(Chr({")"})),
          Opt(Chr({" ", "-"})),
          Rep(Chr(Digit), 3, 3),
          Opt(Chr({" ", "-"})),
          Rep(Chr(Digit), 4, 4)>>)

\* /\b\d{1,4}[/-]\d{1,2}[/-]\d{2,4}\b/g
dateRegex ==
    Cat(<<WordB,
          Rep(Chr(Digit), 1, 4),
          Chr({"/", "-"}),
          Rep(Chr(Digit), 1, 2),
          Chr({"/", "-"}),
          Rep(Chr(Digit), 2, 4),
          WordB>>)

\* /\b\d{1,2}:\d{2}(?::\d{2})?(?:\s?[APap][Mm])?\b/g
timeRegex ==
    Cat(<<WordB,
          Rep(Chr(Digit), 1, 2),
          Chr({":"}),
          Rep(Chr(Digit), 2, 2),
          Opt(Cat(<<Chr({":"}), Rep(Chr(Digit), 2, 2)>>)),
          Opt(Cat(<<Opt(Chr(SpaceChars)), Chr({"A", "P", "a", "p"}), Chr({"M", "m"})>>)),
          WordB>>)

\* the entities pushed for the matches of one pattern: match[0] with its type,
\* for the matches whose length lies in minLen..maxLen
RECURSIVE PushMatches(_, _, _, _, _, _)
PushMatches(text, matches, k, type, minLen, maxLen) ==
    IF k > Len(matches) THEN <<>>
    ELSE LET m == Slice(text, matches[k][1], matches[k][2])
         IN  (IF Len(m) >= minLen /\ Len(m) <= maxLen
              THEN <<[text |-> m, type |-> type]>> ELSE <<>>)
             \o PushMatches(text, matches, k + 1, type, minLen, maxLen)

\* lines 179-185: if (match[0].length >= 10)
PhoneEntities(text) ==
    PushMatches(text, ExecAll(text, phoneRegex, 0), 1, "PHONE_NUMBER", 10, Len(text))

\* a date recognizer that pushes every match
MutDateEntities(text) ==
    PushMatches(text, ExecAll(text, dateRegex, 0), 1, "DATE_TIME", 0, Len(text))

\* lines 189-195: if (match[0].length <= 10)
DateEntities(text) ==
    PushMatches(text, ExecAll(text, dateRegex, 0), 1, "DATE_TIME", 0, 10)

\* the recognizers that push every match
AllMatches(text, regex, type) ==
    PushMatches(text, ExecAll(text, regex, 0), 1, type, 0, Len(text))

detectRegexEntities(text) ==
    AllMatches(text, emailRegex, "EMAIL_ADDRESS")
    \o AllMatches(text, ipRegex, "IP_ADDRESS")
    \o AllMatches(text, urlRegex, "URL")
    \o AllMatches(text, ccRegex, "CREDIT_CARD")
    \o PhoneEntities(text)
    \o DateEntities(text)
    \o AllMatches(text, timeRegex, "DATE_TIME")

(***************************************************************************)
(* computeWordDiff.  A token is a string; a chunk is [value, type].        *)
(***************************************************************************)
\* [^\S\r\n]: white space other than the line ends
BlankChars == WhiteSpace \ {"\r", "\n"}

\* [.,!?;:]
PunctChars == {".", ",", "!", "?", ";", ":"}

\* the end of the run of blanks that starts at offset q
RECURSIVE BlankRunEnd(_, _)
BlankRunEnd(text, q) ==
    IF q < Len(text) /\ text[q + 1] \in BlankChars THEN BlankRunEnd(text, q + 1) ELSE q

\* /([^\S\r\n]+|[.,!?;:]|\b)/ matched at offset q < Len(text): the end of the
\* match, -1 when there is none; the alternatives are tried in order
TokenizerEnd(text, q) ==
    IF text[q + 1] \in BlankChars THEN BlankRunEnd(text, q)
    ELSE IF text[q + 1] \in PunctChars THEN q + 1
    ELSE IF IsWordBoundary(text, q) THEN q
    ELSE -1

\* String.prototype.split with the tokenizer: p is the start of the piece being
\* collected, q the offset tried next; a match that ends at p is passed over,
\* any other match closes the piece and adds its capture
RECURSIVE SplitFrom(_, _, _)
SplitFrom(text, p, q) ==
    IF q >= Len(text) THEN <<Slice(text, p, Len(text))>>
    ELSE LET e == TokenizerEnd(text, q)
         IN  IF e = -1 \/ e = p THEN SplitFrom(text, p, q + 1)
             ELSE <<Slice(text, p, q), Slice(text, q, e)>> \o SplitFrom(text, e, e)

\* a tokenizer that drops the separators it splits at
MutTokenize(text) ==
    SelectSeq(SplitFrom(text, 0, 0),
              LAMBDA t : t # <<>> /\ t[1] \notin BlankChars \cup PunctChars)

\* actual.split(tokenizer).filter(s => s !== '')
Tokenize(text) == SelectSeq(SplitFrom(text, 0, 0), LAMBDA t : t # <<>>)

\* Array(n + 1).fill(0)
DpZeroRow(n) == [k \in 1..(n + 1) |-> 0]

\* the inner loop over j for one i: row holds dp[i][0..j-1], prev is dp[i-1]
RECURSIVE DpRow(_, _, _, _)
DpRow(token, expectedTokens, prev, row) ==
    IF Len(row) > Len(expectedTokens) THEN row
    ELSE LET j == Len(row)
             cell == IF token = expectedTokens[j] THEN prev[j] + 1
                     ELSE Max(prev[j + 1], row[j])
         IN  DpRow(token, expectedTokens, prev, Append(row, cell))

\* the outer loop over i: table holds dp[0..i-1]
RECURSIVE DpRows(_, _, _)
DpRows(actualTokens, expectedTokens, table) ==
    IF Len(table) > Len(actualTokens) THEN table
    ELSE LET i == Len(table)
         IN  DpRows(actualTokens, expectedTokens,
                    Append(table, DpRow(actualTokens[i], expectedTokens, table[i], <<0>>)))

\* dp as the sequence of its rows: dp[i][j] is DpTable(..)[i + 1][j + 1]
DpTable(actualTokens, expectedTokens) ==
    DpRows(actualTokens, expectedTokens, <<DpZeroRow(Len(expectedTokens))>>)

\* i > 0 || j > 0
LoopTest(i, j) == IF i > 0 THEN TRUE ELSE j > 0

\* the three branches of the backtracking loop at (i, j); || evaluates its
\* right operand only when the left one is false
\* a first branch that never looks at the first tokens
MutTakesMatch(a, b, i, j) == i > 1 /\ j > 1 /\ a[i] = b[j]

TakesMatch(a, b, i, j) == i > 0 /\ j > 0 /\ a[i] = b[j]

\* a second branch that does not consult dp
MutTakesExpected(a, b, dp, i, j) ==
    /\ ~ TakesMatch(a, b, i, j)
    /\ j > 0

TakesExpected(a, b, dp, i, j) ==
    /\ ~ TakesMatch(a, b, i, j)
    /\ j > 0
    /\ (IF i = 0 THEN TRUE ELSE dp[i + 1][j] >= dp[i][j + 1])

\* a third branch that compares dp[i][j - 1] when j is 0: the value is
\* undefined there and the comparison is false
MutTakesActual(a, b, dp, i, j) ==
    /\ ~ TakesMatch(a, b, i, j)
    /\ ~ TakesExpected(a, b, dp, i, j)
    /\ i > 0
    /\ (IF j = 0 THEN FALSE ELSE dp[i + 1][j] < dp[i][j + 1])

TakesActual(a, b, dp, i, j) ==
    /\ ~ TakesMatch(a, b, i, j)
    /\ ~ TakesExpected(a, b, dp, i, j)
    /\ i > 0
    /\ (IF j = 0 THEN TRUE ELSE dp[i + 1][j] < dp[i][j + 1])

Chunk(value, type) == [value |-> value, type |-> type]

Reverse(seq) == [k \in 1..Len(seq) |-> seq[Len(seq) + 1 - k]]

\* the while loop from (i, j): [stuck |-> TRUE] when no branch is taken
RECURSIVE Backtrack(_, _, _, _, _, _, _)
Backtrack(a, b, dp, i, j, tempActual, tempExpected) ==
    IF ~ LoopTest(i, j)
    THEN [stuck |-> FALSE, tempActual |-> tempActual, tempExpected |-> tempExpected]
    ELSE IF TakesMatch(a, b, i, j)
    THEN Backtrack(a, b, dp, i - 1, j - 1,
                   Append(tempActual, Chunk(a[i], "match")),
                   Append(tempExpected, Chunk(b[j], "match")))
    ELSE IF TakesExpected(a, b, dp, i, j)
    THEN Backtrack(a, b, dp, i, j - 1, tempActual,
                   Append(tempExpected, Chunk(b[j], "mismatch-expected")))
    ELSE IF TakesActual(a, b, dp, i, j)
    THEN Backtrack(a, b, dp, i - 1, j,
                   Append(tempActual, Chunk(a[i], "mismatch-actual")), tempExpected)
    ELSE [stuck |-> TRUE]

\* computeWordDiff as one step
computeWordDiff(actual, expected) ==
    LET actualTokens == Tokenize(actual)
        expectedTokens == Tokenize(expected)
        out == Backtrack(actualTokens, expectedTokens,
                         DpTable(actualTokens, expectedTokens),
                         Len(actualTokens), Len(expectedTokens), <<>>, <<>>)
    IN  IF out.stuck THEN [stuck |-> TRUE]
        ELSE [stuck |-> FALSE,
              actualChunks |-> Reverse(out.tempActual),
              expectedChunks |-> Reverse(out.tempExpected)]

(***************************************************************************)
(* applyRedaction step by step.  ar is the activation of one call:         *)
(*   pc "entry"  before the sort (line 52)                                 *)
(*   pc "scan"   in sortedEntities.forEach, at entity k, in or before the  *)
(*               while loop of lines 62-79                                 *)
(*   pc "done"   returned; currentText and processedEntities are the       *)
(*               returned redactedText and entitiesWithIndices             *)
(*   pc "exhausted"  processedEntities.push failed: the array outgrew the  *)
(*               memory, which holds MaxResolved entries in this model     *)
(***************************************************************************)
MaxTextLen == 4

MaxEntLen == 2

MaxEntities == 2

MaxResolved == 8

RedactChars == {"a", "R", " "}

RedactTypes == {"URL", "PERSON"}

\* texts over the letters and the space, and shorter ones with a tab and a newline
RedactTexts ==
    SeqsUpTo(RedactChars, MaxTextLen) \cup SeqsUpTo({"a", " ", "\t", "\n"}, MaxTextLen - 1)

RedactEntityLists ==
    SeqsUpTo([text : SeqsUpTo(RedactChars, MaxEntLen), type : RedactTypes], MaxEntities)

\* "IP: 10.0.0.1 end" with its IP entity
IpText ==
    <<"I", "P", ":", " ", "1", "0", ".", "0", ".", "0", ".", "1", " ", "e", "n", "d">>

IpEntity == [text |-> <<"1", "0", ".", "0", ".", "0", ".", "1">>, type |-> "IP_ADDRESS"]

\* "Contact john@example.com or call 212-555-0199." with the entities the
\* pattern detector finds in it
ContactText ==
    <<"C", "o", "n", "t", "a", "c", "t", " ",
      "j", "o", "h", "n", "@", "e", "x", "a", "m", "p", "l", "e", ".", "c", "o", "m", " ",
      "o", "r", " ", "c", "a", "l", "l", " ",
      "2", "1", "2", "-", "5", "5", "5", "-", "0", "1", "9", "9", ".">>

\* "a.b" with an entity whose text is a character that is special in a pattern
DotText == <<"a", ".", "b">>

DotEntity == [text |-> <<".">>, type |-> "URL"]

\* "aaa bbb"
PlainText == <<"a", "a", "a", " ", "b", "b", "b">>

RedactScenarios ==
    {[text |-> IpText, entities |-> <<IpEntity>>],
     [text |-> IpText, entities |-> detectRegexEntities(IpText)],
     [text |-> ContactText, entities |-> detectRegexEntities(ContactText)],
     [text |-> DotText, entities |-> <<DotEntity>>],
     [text |-> PlainText, entities |-> <<>>]}

IdleCall == [fn |-> "none", ret |-> <<>>]

IdleAr == [pc |-> "idle"]

\* no processText call in progress
IdleRun == [pc |-> "idle", outcome |-> "none"]

\* the panel is not mounted
IdlePanel == [pc |-> "idle"]

Activation(text, entities, mode) ==
    [pc |-> "entry", text |-> text, entities |-> entities, mode |-> mode,
     currentText |-> text, processedEntities |-> <<>>,
     sortedEntities |-> <<>>, k |-> 1, searchIndex |-> 0]

RedactInit ==
    /\ call = IdleCall
    /\ panel = IdlePanel
    /\ run = IdleRun
    /\ \/ \E text \in RedactTexts, entities \in RedactEntityLists, mode \in RedactionMode :
             ar = Activation(text, entities, mode)
       \/ \E sc \in RedactScenarios, mode \in RedactionMode :
             ar = Activation(sc.text, sc.entities, mode)

\* line 52
RedactSort ==
    /\ ar.pc = "entry"
    /\ ar' = [ar EXCEPT !.pc = "scan", !.sortedEntities = SortedEntities(ar.entities)]
    /\ UNCHANGED <<call, panel, run>>

\* lines 62-79: one iteration of the while loop, an occurrence was found
RedactScan ==
    /\ ar.pc = "scan"
    /\ ar.k <= Len(ar.sortedEntities)
    /\ LET entity == ar.sortedEntities[ar.k]
           foundIndex == IndexOf(ar.text, entity.text, ar.searchIndex)
           pushed == PushIfFree(ar.processedEntities, entity, foundIndex)
       IN  /\ foundIndex # -1
           /\ IF Len(pushed) > MaxResolved
              THEN ar' = [ar EXCEPT !.pc = "exhausted"]
              ELSE ar' = [ar EXCEPT !.processedEntities = pushed,
                                    !.searchIndex = foundIndex + 1]
    /\ UNCHANGED <<call, panel, run>>

\* lines 62 and 81-85: the while loop ends, the entity is substituted in the
\* running buffer and forEach moves on
RedactReplace ==
    /\ ar.pc = "scan"
    /\ ar.k <= Len(ar.sortedEntities)
    /\ LET entity == ar.sortedEntities[ar.k]
       IN  /\ IndexOf(ar.text, entity.text, ar.searchIndex) = -1
           /\ ar' = [ar EXCEPT !.currentText = ReplaceEntity(ar.currentText, entity, ar.mode),
                               !.k = ar.k + 1,
                               !.searchIndex = 0]
    /\ UNCHANGED <<call, panel, run>>

\* lines 89-93
RedactReturn ==
    /\ ar.pc = "scan"
    /\ ar.k > Len(ar.sortedEntities)
    /\ ar' = [ar EXCEPT !.pc = "done",
                        !.currentText = Cleanup(ar.currentText),
                        !.processedEntities = SortByStart(ar.processedEntities)]
    /\ UNCHANGED <<call, panel, run>>

RedactNext == RedactSort \/ RedactScan \/ RedactReplace \/ RedactReturn

RedactSpec == RedactInit /\ [][RedactNext]_vars

\* the calls whose text is no longer than an entity's text
ShortInit ==
    /\ call = IdleCall
    /\ panel = IdlePanel
    /\ run = IdleRun
    /\ \E text \in SeqsUpTo(RedactChars, MaxEntLen), entities \in RedactEntityLists,
          mode \in RedactionMode :
             ar = Activation(text, entities, mode)

ShortSpec == ShortInit /\ [][RedactNext]_vars

(***************************************************************************)
(* RedactionPanel.  panel holds the component's state; a nullable value is *)
(* <<>> for null and <<v>> otherwise.  A handler sees the state of the     *)
(* render it was created in: processText keeps inputText, mode and         *)
(* expectedText in its closure (run) across the await.                     *)
(*   run.pc "idle"      no processText call in progress                    *)
(*   run.pc "awaiting"  suspended at await extractEntities (line 109)      *)
(*   run.pc "hung"      applyRedaction never returned                      *)
(***************************************************************************)
MaxAiEntities == 1

\* "j@x.io or 1.2.3.4": a text with an e-mail address and an IP address
MailText ==
    <<"j", "@", "x", ".", "i", "o", " ", "o", "r", " ", "1", ".", "2", ".", "3", ".", "4">>

\* what the user can type or upload as input
PanelTexts == {MailText, IpText, <<" ">>}

\* what the user can upload as expected output
ExpectedTexts == {<<>>, <<"I", "P", ":", " ", "e", "n", "d">>}

\* entities the extractor may name: a word of the text, a text the pattern
\* detector finds too, a text that does not occur, an empty text
AiPool ==
    {[text |-> <<"o", "r">>, type |-> "PERSON"],
     [text |-> <<"1", ".", "2", ".", "3", ".", "4">>, type |-> "LOCATION"],
     [text |-> <<"z">>, type |-> "LOCATION"],
     [text |-> <<>>, type |-> "PERSON"]}

AiLists == SeqsUpTo(AiPool, MaxAiEntities)

\* how the request of extractEntities can end
Outcomes == {"failed", "empty", "entities"}

\* an extractor whose failure rejects the promise
MutExtractEntities(text, outcome, payload) ==
    IF Trim(text) = <<>> THEN [threw |-> FALSE, value |-> <<>>]
    ELSE IF outcome = "failed" THEN [threw |-> TRUE, value |-> <<>>]
    ELSE IF outcome = "empty" THEN [threw |-> FALSE, value |-> <<>>]
    ELSE [threw |-> FALSE, value |-> payload]

\* extractEntities: a blank text returns [] at once; a failure of the request or
\* of JSON.parse is caught and returns []; an empty response returns []; else
\* data.entities
extractEntities(text, outcome, payload) ==
    IF Trim(text) = <<>> THEN [threw |-> FALSE, value |-> <<>>]
    ELSE IF outcome = "failed" THEN [threw |-> FALSE, value |-> <<>>]
    ELSE IF outcome = "empty" THEN [threw |-> FALSE, value |-> <<>>]
    ELSE [threw |-> FALSE, value |-> payload]

PanelInit ==
    /\ call = IdleCall
    /\ ar = IdleAr
    /\ run = IdleRun
    /\ panel = [inputText |-> MailText,
                redactedText |-> <<>>,
                entities |-> <<>>,
                mode |-> "MASK",
                isProcessing |-> FALSE,
                processingStage |-> "",
                stats |-> <<>>,
                error |-> <<>>,
                expectedText |-> <<>>,
                comparisonDiff |-> <<>>]

\* while a handler is stuck in a call that never returns the page runs no
\* other handler
Responsive == run.pc # "hung"

\* textarea onChange (line 319) and the input file upload (lines 44-59, 262)
SetInputText ==
    /\ Responsive
    /\ \E text \in PanelTexts :
          /\ text # panel.inputText
          /\ panel' = [panel EXCEPT !.inputText = text]
    /\ UNCHANGED <<call, ar, run>>

\* the expected file upload (line 412), offered while expectedText is empty
SetExpectedText ==
    /\ Responsive
    /\ panel.expectedText = <<>>
    /\ \E text \in ExpectedTexts :
          /\ text # <<>>
          /\ panel' = [panel EXCEPT !.expectedText = text]
    /\ UNCHANGED <<call, ar, run>>

\* "Remove & Upload Different File" (line 420)
RemoveExpected ==
    /\ Responsive
    /\ panel.expectedText # <<>>
    /\ panel' = [panel EXCEPT !.expectedText = <<>>, !.comparisonDiff = <<>>]
    /\ UNCHANGED <<call, ar, run>>

\* the mode buttons (lines 242-253) with the effect on [mode] (lines 142-151),
\* which runs after the render in which mode changed
SetMode ==
    /\ Responsive
    /\ \E mode \in RedactionMode :
          /\ mode # panel.mode
          /\ IF Len(panel.entities) > 0 /\ ~ panel.isProcessing
             THEN LET result == applyRedaction(panel.inputText, panel.entities, mode)
                  IN  IF result.hang
                      THEN /\ panel' = [panel EXCEPT !.mode = mode]
                           /\ run' = [run EXCEPT !.pc = "hung"]
                      ELSE /\ panel' = [panel EXCEPT
                                  !.mode = mode,
                                  !.redactedText = result.redactedText,
                                  !.stats = <<updateStats(panel.inputText,
                                                          result.redactedText,
                                                          panel.expectedText,
                                                          Len(panel.entities))>>,
                                  !.comparisonDiff = <<>>]
                           /\ run' = run
             ELSE /\ panel' = [panel EXCEPT !.mode = mode]
                  /\ run' = run
    /\ UNCHANGED <<call, ar>>

\* runEvaluation (lines 134-139) from its button (lines 430-431), which is
\* disabled while redactedText or expectedText is empty
RunEvaluation ==
    /\ Responsive
    /\ panel.redactedText # <<>>
    /\ panel.expectedText # <<>>
    /\ LET diff == computeWordDiff(panel.redactedText, panel.expectedText)
       IN  IF diff.stuck
           THEN /\ panel' = panel
                /\ run' = [run EXCEPT !.pc = "hung"]
           ELSE /\ panel' = [panel EXCEPT
                       !.stats = <<updateStats(panel.inputText, panel.redactedText,
                                               panel.expectedText, Len(panel.entities))>>,
                       !.comparisonDiff = <<[actualChunks |-> diff.actualChunks,
                                             expectedChunks |-> diff.expectedChunks]>>]
                /\ run' = run
    /\ UNCHANGED <<call, ar>>

\* processText up to its await (lines 81-109); the button is disabled while
\* isProcessing (line 275)
ProcessTextStart ==
    /\ run.pc = "idle"
    /\ ~ panel.isProcessing
    /\ Trim(panel.inputText) # <<>>
    /\ LET regexEntities == detectRegexEntities(panel.inputText)
           intermediateResult == applyRedaction(panel.inputText, regexEntities, panel.mode)
       IN  /\ panel' = [panel EXCEPT
                  !.isProcessing = TRUE,
                  !.processingStage = "ai",
                  !.error = <<>>,
                  !.entities = intermediateResult.entitiesWithIndices,
                  !.redactedText = intermediateResult.redactedText,
                  !.stats = <<updateStats(panel.inputText,
                                          intermediateResult.redactedText,
                                          panel.expectedText,
                                          Len(intermediateResult.entitiesWithIndices))>>]
           /\ run' = [pc |-> "awaiting", outcome |-> "none",
                      inputText |-> panel.inputText, mode |-> panel.mode,
                      expectedText |-> panel.expectedText,
                      regexEntities |-> regexEntities]
    /\ UNCHANGED <<call, ar>>

\* processText with an empty input returns at line 82
ProcessTextBlank ==
    /\ run.pc = "idle"
    /\ ~ panel.isProcessing
    /\ Trim(panel.inputText) = <<>>
    /\ UNCHANGED vars

\* the extractor settles and processText resumes (lines 109-131)
ProcessTextResume ==
    /\ run.pc = "awaiting"
    /\ \E outcome \in Outcomes, payload \in AiLists :
          /\ outcome = "entities" <=> payload # <<>>
          /\ LET ai == extractEntities(run.inputText, outcome, payload)
                 finalEntities == mergeEntities(ai.value, run.regexEntities)
                 finalResult == applyRedaction(run.inputText, finalEntities, run.mode)
             IN  IF ai.threw
                 THEN /\ panel' = [panel EXCEPT
                             !.error = <<"AI Service unavailable.">>,
                             !.isProcessing = FALSE,
                             !.processingStage = ""]
                      /\ run' = [pc |-> "idle", outcome |-> outcome]
                 ELSE IF finalResult.hang
                 THEN /\ panel' = panel
                      /\ run' = [run EXCEPT !.pc = "hung", !.outcome = outcome]
                 ELSE /\ panel' = [panel EXCEPT
                             !.entities = finalResult.entitiesWithIndices,
                             !.redactedText = finalResult.redactedText,
                             !.stats = <<updateStats(run.inputText,
                                                     finalResult.redactedText,
                                                     run.expectedText,
                                                     Len(finalResult.entitiesWithIndices))>>,
                             !.isProcessing = FALSE,
                             !.processingStage = ""]
                      /\ run' = [pc |-> "idle", outcome |-> outcome]
    /\ UNCHANGED <<call, ar>>

PanelNext ==
    \/ SetInputText
    \/ SetExpectedText
    \/ RemoveExpected
    \/ SetMode
    \/ RunEvaluation
    \/ ProcessTextStart
    \/ ProcessTextBlank
    \/ ProcessTextResume

PanelSpec == PanelInit /\ [][PanelNext]_vars

(***************************************************************************)
(* Calls of the pure functions on inputs drawn from bounded sets.          *)
(* call.ret is <<>> before the call and <<result>> after it.               *)
(***************************************************************************)
MaxStrLen == 3

MaxMergeLen == 2

StatChars == {"a", " "}

StatStrings == SeqsUpTo(StatChars, MaxStrLen)

LevChars == {"a", "b"}

LevStrings == SeqsUpTo(LevChars, MaxStrLen)

MergePool == [text : {<<"a">>, <<"A">>}, type : {"PERSON", "URL"}]

MergeLists == SeqsUpTo(MergePool, MaxMergeLen)

EntityCounts == {0, 1}

PureInit ==
    /\ ar = IdleAr
    /\ panel = IdlePanel
    /\ run = IdleRun
    /\ \/ \E a \in LevStrings, b \in LevStrings :
            call = [fn |-> "calculateLevenshteinDistance", s1 |-> a, s2 |-> b,
                    ret |-> <<>>]
       \/ \E o \in StatStrings, r \in StatStrings, e \in StatStrings, n \in EntityCounts :
            call = [fn |-> "updateStats", original |-> o, redacted |-> r,
                    expected |-> e, entityCount |-> n, ret |-> <<>>]
       \/ \E p \in MergeLists, s \in MergeLists :
            call = [fn |-> "mergeEntities", aiEntities |-> p, regexEntities |-> s,
                    ret |-> <<>>]

CallLevenshtein ==
    /\ call.fn = "calculateLevenshteinDistance"
    /\ call.ret = <<>>
    /\ call' = [call EXCEPT !.ret = <<calculateLevenshteinDistance(call.s1, call.s2)>>]
    /\ UNCHANGED <<ar, panel, run>>

CallUpdateStats ==
    /\ call.fn = "updateStats"
    /\ call.ret = <<>>
    /\ call' = [call EXCEPT !.ret =
                  <<updateStats(call.original, call.redacted, call.expected,
                                call.entityCount)>>]
    /\ UNCHANGED <<ar, panel, run>>

CallMergeEntities ==
    /\ call.fn = "mergeEntities"
    /\ call.ret = <<>>
    /\ call' = [call EXCEPT !.ret = <<mergeEntities(call.aiEntities, call.regexEntities)>>]
    /\ UNCHANGED <<ar, panel, run>>

PureNext == CallLevenshtein \/ CallUpdateStats \/ CallMergeEntities

PureSpec == PureInit /\ [][PureNext]_vars

(***************************************************************************)
(* detectRegexEntities step by step.  call is the activation:              *)
(*   pc        the recognizer whose scan loop runs next, "done" after the  *)
(*             return (line 204)                                           *)
(*   entities  the local array of line 150                                 *)
(* The texts are runs of digits joined by the separators of the patterns.  *)
(***************************************************************************)
MaxFragments == 5

DetectFragments ==
    {<<"2", "0">>, <<"2", "0", "2", "4">>, <<"5", "5", "5">>, <<"-">>, <<":">>, <<" ">>}

RECURSIVE Flatten(_)
Flatten(frags) ==
    IF frags = <<>> THEN <<>> ELSE Head(frags) \o Flatten(Tail(frags))

\* "555-555-2024 2024-20-2024-20-20": a phone number, then a 12-character
\* match of the date pattern followed by "-20-20"
LongDateText ==
    <<"5", "5", "5", "-", "5", "5", "5", "-", "2", "0", "2", "4", " ",
      "2", "0", "2", "4", "-", "2", "0", "-", "2", "0", "2", "4",
      "-", "2", "0", "-", "2", "0">>

\* "12:30:45 PM"
ClockText == <<"1", "2", ":", "3", "0", ":", "4", "5", " ", "P", "M">>

DetectTexts ==
    {Flatten(f) : f \in SeqsUpTo(DetectFragments, MaxFragments)}
        \cup {LongDateText, ClockText}

DetectInit ==
    /\ ar = IdleAr
    /\ panel = IdlePanel
    /\ run = IdleRun
    /\ \E text \in DetectTexts :
          call = [fn |-> "detectRegexEntities", text |-> text, pc |-> "email",
                  entities |-> <<>>]

\* one scan loop: the entities it pushes are appended, control moves on
DetectStep(pc, pushed, next) ==
    /\ call.fn = "detectRegexEntities"
    /\ call.pc = pc
    /\ call' = [call EXCEPT !.entities = @ \o pushed, !.pc = next]
    /\ UNCHANGED <<ar, panel, run>>

DetectEmail == DetectStep("email", AllMatches(call.text, emailRegex, "EMAIL_ADDRESS"), "ip")

DetectIp == DetectStep("ip", AllMatches(call.text, ipRegex, "IP_ADDRESS"), "url")

DetectUrl == DetectStep("url", AllMatches(call.text, urlRegex, "URL"), "cc")

DetectCc == DetectStep("cc", AllMatches(call.text, ccRegex, "CREDIT_CARD"), "phone")

DetectPhone == DetectStep("phone", PhoneEntities(call.text), "date")

DetectDate == DetectStep("date", DateEntities(call.text), "time")

DetectTime == DetectStep("time", AllMatches(call.text, timeRegex, "DATE_TIME"), "done")

DetectNext ==
    \/ DetectEmail
    \/ DetectIp
    \/ DetectUrl
    \/ DetectCc
    \/ DetectPhone
    \/ DetectDate
    \/ DetectTime

DetectSpec == DetectInit /\ [][DetectNext]_vars

(***************************************************************************)
(* computeWordDiff step by step.  call is the activation:                  *)
(*   pc "entry"  before the tokenizer (line 101)                           *)
(*   pc "loop"   at the test of while (i > 0 || j > 0) (line 124)          *)
(*   pc "done"   returned; actualChunks and expectedChunks are the result  *)
(* An iteration that takes none of the three branches would leave i and j  *)
(* as they are, and the loop would not end: such a state has no successor. *)
(***************************************************************************)
MaxDiffLen == 3

DiffChars == {"a", "b", " ", "."}

DiffStrings == SeqsUpTo(DiffChars, MaxDiffLen)

\* "the cat sat" and "the dog sat"
CatText == <<"t", "h", "e", " ", "c", "a", "t", " ", "s", "a", "t">>

DogText == <<"t", "h", "e", " ", "d", "o", "g", " ", "s", "a", "t">>

DiffActivation(actual, expected) ==
    [fn |-> "computeWordDiff", pc |-> "entry", actual |-> actual, expected |-> expected,
     actualTokens |-> <<>>, expectedTokens |-> <<>>, dp |-> <<>>, i |-> 0, j |-> 0,
     tempActual |-> <<>>, tempExpected |-> <<>>,
     actualChunks |-> <<>>, expectedChunks |-> <<>>, ret |-> <<>>]

DiffInit ==
    /\ ar = IdleAr
    /\ panel = IdlePanel
    /\ run = IdleRun
    /\ \/ \E actual \in DiffStrings, expected \in DiffStrings :
             call = DiffActivation(actual, expected)
       \/ \E actual \in {CatText, DogText}, expected \in {CatText, DogText} :
             call = DiffActivation(actual, expected)

InDiffLoop == call.fn = "computeWordDiff" /\ call.pc = "loop"

\* lines 101-122
DiffTokenize ==
    /\ call.fn = "computeWordDiff"
    /\ call.pc = "entry"
    /\ LET actualTokens == Tokenize(call.actual)
           expectedTokens == Tokenize(call.expected)
       IN  call' = [call EXCEPT !.pc = "loop",
                                !.actualTokens = actualTokens,
                                !.expectedTokens = expectedTokens,
                                !.dp = DpTable(actualTokens, expectedTokens),
                                !.i = Len(actualTokens),
                                !.j = Len(expectedTokens)]
    /\ UNCHANGED <<ar, panel, run>>

\* lines 125-129
DiffMatch ==
    /\ InDiffLoop
    /\ LoopTest(call.i, call.j)
    /\ TakesMatch(call.actualTokens, call.expectedTokens, call.i, call.j)
    /\ call' = [call EXCEPT
          !.tempActual = Append(@, Chunk(call.actualTokens[call.i], "match")),
          !.tempExpected = Append(@, Chunk(call.expectedTokens[call.j], "match")),
          !.i = @ - 1,
          !.j = @ - 1]
    /\ UNCHANGED <<ar, panel, run>>

\* lines 130-132
DiffExpected ==
    /\ InDiffLoop
    /\ LoopTest(call.i, call.j)
    /\ TakesExpected(call.actualTokens, call.expectedTokens, call.dp, call.i, call.j)
    /\ call' = [call EXCEPT
          !.tempExpected =
              Append(@, Chunk(call.expectedTokens[call.j], "mismatch-expected")),
          !.j = @ - 1]
    /\ UNCHANGED <<ar, panel, run>>

\* lines 133-135
DiffActual ==
    /\ InDiffLoop
    /\ LoopTest(call.i, call.j)
    /\ TakesActual(call.actualTokens, call.expectedTokens, call.dp, call.i, call.j)
    /\ call' = [call EXCEPT
          !.tempActual = Append(@, Chunk(call.actualTokens[call.i], "mismatch-actual")),
          !.i = @ - 1]
    /\ UNCHANGED <<ar, panel, run>>

\* lines 124 and 139-142: the loop ends and the reversed lists are returned
DiffReturn ==
    /\ InDiffLoop
    /\ ~ LoopTest(call.i, call.j)
    /\ call' = [call EXCEPT !.pc = "done",
                            !.actualChunks = Reverse(call.tempActual),
                            !.expectedChunks = Reverse(call.tempExpected)]
    /\ UNCHANGED <<ar, panel, run>>

DiffNext == DiffTokenize \/ DiffMatch \/ DiffExpected \/ DiffActual \/ DiffReturn

DiffSpec == DiffInit /\ [][DiffNext]_vars

(***************************************************************************)
(* Properties of the pure functions (checked under PureSpec)               *)
(***************************************************************************)
LevReturned == call.fn = "calculateLevenshteinDistance" /\ call.ret # <<>>

StatsReturned == call.fn = "updateStats" /\ call.ret # <<>>

MergeReturned == call.fn = "mergeEntities" /\ call.ret # <<>>

C9_LevenshteinOfEqualAndEmpty ==
    LevReturned =>
        /\ (call.s1 = call.s2 => call.ret[1] = 0)
        /\ (call.s1 = <<>> => call.ret[1] = Len(call.s2))
        /\ (call.s2 = <<>> => call.ret[1] = Len(call.s1))

\* the distance of a string of two different characters to itself
C9_Witness ==
    /\ LevReturned
    /\ call.s1 = call.s2
    /\ Cardinality(Range(call.s1)) = 2
    /\ call.ret[1] = 0

\* C10: both scores of updateStats lie in [0, 100], and a score is 100 exactly
\* when the two strings it compares are equal (both empty included).
C10_ScoresInRangeAnd100IffEqual ==
    StatsReturned =>
        LET st == call.ret[1]
        IN  /\ RatGeq0(st.similarityScore) /\ RatLeq100(st.similarityScore)
            /\ RatIs100(st.similarityScore) <=> (call.original = call.redacted)
            /\ "accuracyScore" \in DOMAIN st =>
                  /\ RatGeq0(st.accuracyScore) /\ RatLeq100(st.accuracyScore)
                  /\ RatIs100(st.accuracyScore) <=> (call.expected = call.redacted)

\* an accuracy score of 100 beside a similarity score strictly between 0 and 100
C10_Witness ==
    /\ StatsReturned
    /\ "accuracyScore" \in DOMAIN call.ret[1]
    /\ RatIs100(call.ret[1].accuracyScore)
    /\ call.ret[1].similarityScore.num > 0
    /\ ~ RatIs100(call.ret[1].similarityScore)

(***************************************************************************)
(* Properties of applyRedaction (checked under RedactSpec)                 *)
(***************************************************************************)
Running == ar.pc \in {"scan", "done", "exhausted"}

Returned == ar.pc = "done"

\* the number of offsets of buffer at which pat occurs
CountOcc(buffer, pat) ==
    Cardinality({i \in 0..(Len(buffer) - Len(pat)) :
                    Slice(buffer, i, i + Len(pat)) = pat})

Placeholder(type) == <<"[">> \o TypeChars(type) \o <<"]">>

\* the number of matches a global replace of the pattern substitutes
RECURSIVE MatchCount(_, _, _)
MatchCount(buffer, atoms, i) ==
    LET hits == {h \in i..Len(buffer) : MatchesAt(buffer, atoms, h)}
    IN  IF hits = {} THEN 0
        ELSE LET next == MinOf(hits) + Max(Len(atoms), 1)
             IN  1 + (IF next > Len(buffer) THEN 0 ELSE MatchCount(buffer, atoms, next))

RangesOverlap(e1, e2) == e1.startIndex < e2.endIndex /\ e1.endIndex > e2.startIndex

StripSpaces(s) == SelectSeq(s, LAMBDA c : c # " ")

\* C1: every entity recorded as resolved has 0 <= startIndex < endIndex <=
\* length(text) and its text is the slice of the original text at that range.
C1_ResolvedRangesValid ==
    Running =>
        \A k \in DOMAIN ar.processedEntities :
            LET e == ar.processedEntities[k]
            IN  /\ 0 <= e.startIndex
                /\ e.startIndex < e.endIndex
                /\ e.endIndex <= Len(ar.text)
                /\ e.text = Slice(ar.text, e.startIndex, e.endIndex)

\* C2: at every point of the resolution pass and in the returned list no two
\* resolved entries have overlapping ranges.
C2_NoTwoResolvedOverlap ==
    Running =>
        \A j, k \in DOMAIN ar.processedEntities :
            j # k => ~ RangesOverlap(ar.processedEntities[j], ar.processedEntities[k])

\* two entities, one's text inside the other's, both resolved in the returned
\* list while an occurrence of the shorter one was dropped for overlapping
C2_Witness ==
    /\ Returned
    /\ Len(ar.sortedEntities) = 2
    /\ Len(ar.sortedEntities[1].text) = 2
    /\ Len(ar.sortedEntities[2].text) = 1
    /\ CountOcc(ar.sortedEntities[1].text, ar.sortedEntities[2].text) = 1
    /\ \E j, k \in DOMAIN ar.processedEntities :
          /\ ar.processedEntities[j].text = ar.sortedEntities[1].text
          /\ ar.processedEntities[k].text = ar.sortedEntities[2].text
    /\ Cardinality({k \in DOMAIN ar.processedEntities :
                        ar.processedEntities[k].text = ar.sortedEntities[2].text})
         < CountOcc(ar.text, ar.sortedEntities[2].text)

\* C3: applyRedaction terminates and returns without throwing: a call that has
\* not returned can always take its next step.
C3_ReturnsWithoutFailing == Returned \/ ENABLED RedactNext

\* C4: in MASK mode a substitution step adds one intact placeholder per
\* occurrence it replaces and leaves every placeholder inserted earlier
\* intact, and so does the final cleanup.
C4_PlaceholdersStayIntact ==
    [][(ar.pc = "scan" /\ ar.mode = "MASK") =>
         \A type \in EntityType :
            LET before == CountOcc(ar.currentText, Placeholder(type))
                after == CountOcc(ar'.currentText, Placeholder(type))
                entity == ar.sortedEntities[ar.k]
                added == IF ar'.pc = "scan" /\ ar'.k = ar.k + 1 /\ entity.type = type
                         THEN MatchCount(ar.currentText,
                                         PatternAtoms(EscapeRegExp(entity.text)), 0)
                         ELSE 0
            IN  after >= before + added]_vars

\* C5: the returned redactedText has no two consecutive spaces and no
\* whitespace at its ends; apart from the spaces it is the trimmed buffer, so
\* interior tabs and newlines are left as they are; REMOVE of the IP entity in
\* "IP: 10.0.0.1 end" returns "IP: end".
C5_CleanupCollapsesSpacesAndTrims ==
    [][(ar.pc = "scan" /\ ar'.pc = "done") =>
         LET redactedText == ar'.currentText
         IN  /\ \A i \in 1..(Len(redactedText) - 1) :
                   ~ (redactedText[i] = " " /\ redactedText[i + 1] = " ")
             /\ redactedText # <<>> =>
                   /\ redactedText[1] \notin WhiteSpace
                   /\ redactedText[Len(redactedText)] \notin WhiteSpace
             /\ StripSpaces(redactedText) = StripSpaces(Trim(ar.currentText))
             /\ (ar.text = IpText /\ ar.entities = <<IpEntity>> /\ ar.mode = "REMOVE") =>
                   redactedText = <<"I", "P", ":", " ", "e", "n", "d">>]_vars

\* the IP scenario has returned "IP: end"
C5_Witness ==
    /\ Returned
    /\ ar.text = IpText
    /\ ar.mode = "REMOVE"
    /\ ar.currentText = <<"I", "P", ":", " ", "e", "n", "d">>

\* C8: for "Contact john@example.com or call 212-555-0199." in MASK mode with
\* the pattern detector's entities, the redacted text holds [EMAIL_ADDRESS] and
\* [PHONE_NUMBER] with single spaces between the words, and the two resolved
\* entities carry the half-open ranges of "john@example.com" and
\* "212-555-0199" in the original text.
C8_ContactScenario ==
    (Returned /\ ar.text = ContactText /\ ar.mode = "MASK"
       /\ ar.entities = detectRegexEntities(ContactText)) =>
        /\ ar.currentText =
              <<"C", "o", "n", "t", "a", "c", "t", " ">>
              \o Placeholder("EMAIL_ADDRESS")
              \o <<" ", "o", "r", " ", "c", "a", "l", "l", " ">>
              \o Placeholder("PHONE_NUMBER") \o <<".">>
        /\ Len(ar.processedEntities) = 2
        /\ LET email == ar.processedEntities[1]
               phone == ar.processedEntities[2]
           IN  /\ email.type = "EMAIL_ADDRESS"
               /\ Slice(ContactText, email.startIndex, email.endIndex)
                    = <<"j", "o", "h", "n", "@", "e", "x", "a", "m", "p", "l", "e",
                        ".", "c", "o", "m">>
               /\ phone.type = "PHONE_NUMBER"
               /\ Slice(ContactText, phone.startIndex, phone.endIndex)
                    = <<"2", "1", "2", "-", "5", "5", "5", "-", "0", "1", "9", "9">>

\* the scenario has returned with its two resolved entities
C8_Witness ==
    /\ Returned
    /\ ar.text = ContactText
    /\ ar.mode = "MASK"
    /\ ar.entities = detectRegexEntities(ContactText)
    /\ Len(ar.processedEntities) = 2
    /\ ar.processedEntities[1].startIndex = 8
    /\ ar.processedEntities[2].endIndex = 45

(***************************************************************************)
(* Properties of the panel (checked under PanelSpec)                       *)
(***************************************************************************)
\* C7: when the extractor fails or returns an empty sequence, processText
\* finishes without an error, and the entities and redactedText it publishes
\* are the interim ones published before the call: applyRedaction of the input
\* with the detectRegexEntities output under the same mode.
C7_ExtractorFailureKeepsInterim ==
    [][(run.pc = "awaiting" /\ run'.outcome \in {"failed", "empty"}) =>
         LET interim == applyRedaction(run.inputText,
                                       detectRegexEntities(run.inputText), run.mode)
         IN  /\ run'.pc = "idle"
             /\ ~ panel'.isProcessing
             /\ panel'.error = <<>>
             /\ panel.entities = interim.entitiesWithIndices
             /\ panel.redactedText = interim.redactedText
             /\ panel'.entities = panel.entities
             /\ panel'.redactedText = panel.redactedText]_vars

\* a run whose extractor failed has finished with the masked interim result,
\* the user having switched the mode to REMOVE while the call was pending
C7_Witness ==
    /\ run.pc = "idle"
    /\ run.outcome = "failed"
    /\ ~ panel.isProcessing
    /\ panel.mode = "REMOVE"
    /\ Len(panel.entities) = 2
    /\ CountOcc(panel.redactedText, Placeholder("EMAIL_ADDRESS")) = 1
    /\ CountOcc(panel.redactedText, Placeholder("IP_ADDRESS")) = 1

(***************************************************************************)
(* Properties of computeWordDiff (checked under DiffSpec)                  *)
(***************************************************************************)
DiffReturned == call.fn = "computeWordDiff" /\ call.pc = "done"

ChunkValues(chunks) == [k \in 1..Len(chunks) |-> chunks[k].value]

ChunkTypes(chunks) == {chunks[k].type : k \in 1..Len(chunks)}

\* the strings of a sequence joined
RECURSIVE Joined(_)
Joined(strings) ==
    IF strings = <<>> THEN <<>> ELSE Head(strings) \o Joined(Tail(strings))

\* C11: computeWordDiff(x, x) returns only match chunks on both sides, and the
\* chunk values of either side are the tokens of x in order: none is empty and
\* joined they give x back.
C11_DiffOfEqualIsAllMatch ==
    (DiffReturned /\ call.actual = call.expected) =>
        \A chunks \in {call.actualChunks, call.expectedChunks} :
            /\ ChunkTypes(chunks) \subseteq {"match"}
            /\ ChunkValues(chunks) = Tokenize(call.actual)
            /\ Joined(ChunkValues(chunks)) = call.actual
            /\ \A k \in 1..Len(chunks) : chunks[k].value # <<>>

\* a text of three tokens compared with itself
C11_Witness ==
    /\ DiffReturned
    /\ call.actual = call.expected
    /\ Len(call.actualChunks) = 3
    /\ Len(call.expectedChunks) = 3
    /\ ChunkTypes(call.actualChunks) = {"match"}

\* the length of a longest common subsequence of a[1..i] and b[1..j]
RECURSIVE LcsLen(_, _, _, _)
LcsLen(a, b, i, j) ==
    IF i = 0 \/ j = 0 THEN 0
    ELSE IF a[i] = b[j] THEN LcsLen(a, b, i - 1, j - 1) + 1
    ELSE Max(LcsLen(a, b, i - 1, j), LcsLen(a, b, i, j - 1))

\* the reference backtrack from (i, j), its two chunk lists in reading order
RECURSIVE RefBacktrack(_, _, _, _)
RefBacktrack(a, b, i, j) ==
    IF i = 0 /\ j = 0 THEN [actual |-> <<>>, expected |-> <<>>]
    ELSE IF i > 0 /\ j > 0 /\ a[i] = b[j]
    THEN LET rest == RefBacktrack(a, b, i - 1, j - 1)
         IN  [actual |-> Append(rest.actual, Chunk(a[i], "match")),
              expected |-> Append(rest.expected, Chunk(b[j], "match"))]
    ELSE IF i = 0 \/ (j > 0 /\ LcsLen(a, b, i, j - 1) >= LcsLen(a, b, i - 1, j))
    THEN LET rest == RefBacktrack(a, b, i, j - 1)
         IN  [actual |-> rest.actual,
              expected |-> Append(rest.expected, Chunk(b[j], "mismatch-expected"))]
    ELSE LET rest == RefBacktrack(a, b, i - 1, j)
         IN  [actual |-> Append(rest.actual, Chunk(a[i], "mismatch-actual")),
              expected |-> rest.expected]

TheToken == <<"t", "h", "e">>

SatToken == <<"s", "a", "t">>

\* C15: the output is that of the reference LCS backtrack from (m, n), which
\* consumes the expected side on ties; "the cat sat" against "the dog sat"
\* marks only cat as mismatch-actual and only dog as mismatch-expected.
C15_DiffIsReferenceBacktrack ==
    DiffReturned =>
        /\ LET a == call.actualTokens
               b == call.expectedTokens
               ref == RefBacktrack(a, b, Len(a), Len(b))
           IN  /\ call.actualChunks = ref.actual
               /\ call.expectedChunks = ref.expected
        /\ (call.actual = CatText /\ call.expected = DogText) =>
              /\ call.actualChunks =
                    <<Chunk(TheToken, "match"), Chunk(<<" ">>, "match"),
                      Chunk(<<"c", "a", "t">>, "mismatch-actual"),
                      Chunk(<<" ">>, "match"), Chunk(SatToken, "match")>>
              /\ call.expectedChunks =
                    <<Chunk(TheToken, "match"), Chunk(<<" ">>, "match"),
                      Chunk(<<"d", "o", "g">>, "mismatch-expected"),
                      Chunk(<<" ">>, "match"), Chunk(SatToken, "match")>>

\* two tokens in opposite orders: the tie at (2, 2) went to the expected side,
\* so the match is the last token of actual and the first of expected
C15_Witness ==
    /\ DiffReturned
    /\ Len(call.actualTokens) = 2
    /\ Len(call.expectedTokens) = 2
    /\ call.actualTokens[1] = call.expectedTokens[2]
    /\ call.actualTokens[2] = call.expectedTokens[1]
    /\ call.actualTokens[1] # call.actualTokens[2]
    /\ call.actualChunks[2].type = "match"
    /\ call.expectedChunks[1].type = "match"

\* C17: computeWordDiff never fails and always ends: at every test of the
\* loop with i > 0 or j > 0 one of the three branches applies, the iteration
\* it starts makes i + j smaller and keeps i and j at or above 0, so the loop
\* ends at (0, 0); empty inputs give empty chunk lists.
C17_DiffTerminates ==
    /\ []((InDiffLoop /\ LoopTest(call.i, call.j)) =>
             \/ TakesMatch(call.actualTokens, call.expectedTokens, call.i, call.j)
             \/ TakesExpected(call.actualTokens, call.expectedTokens, call.dp,
                              call.i, call.j)
             \/ TakesActual(call.actualTokens, call.expectedTokens, call.dp,
                            call.i, call.j))
    /\ [](DiffReturned =>
             /\ call.i = 0
             /\ call.j = 0
             /\ (call.actual = <<>> /\ call.expected = <<>>) =>
                   call.actualChunks = <<>> /\ call.expectedChunks = <<>>)
    /\ [][(InDiffLoop /\ LoopTest(call.i, call.j)) =>
             /\ call'.pc = "loop"
             /\ call'.i + call'.j < call.i + call.j
             /\ call'.i >= 0
             /\ call'.j >= 0]_vars

\* a call that took each of the three branches has returned
C17_Witness ==
    /\ DiffReturned
    /\ call.i = 0
    /\ call.j = 0
    /\ "mismatch-actual" \in ChunkTypes(call.actualChunks)
    /\ "mismatch-expected" \in ChunkTypes(call.expectedChunks)
    /\ "match" \in ChunkTypes(call.actualChunks)

(***************************************************************************)
(* The edit distance, for calculateLevenshteinDistance (under PureSpec)    *)
(***************************************************************************)
\* the strings one insertion, deletion or substitution of a character of
\* chars away from s
OneEdit(s, chars) ==
    {SubSeq(s, 1, k - 1) \o SubSeq(s, k + 1, Len(s)) : k \in 1..Len(s)}
    \cup {[s EXCEPT ![k] = c] : k \in 1..Len(s), c \in chars}
    \cup {SubSeq(s, 1, k) \o <<c>> \o SubSeq(s, k + 1, Len(s)) : k \in 0..Len(s), c \in chars}

\* the least number of edits, starting with k done, that lead from a string of
\* reached to b (Len(a) substitutions, insertions or deletions always do)
RECURSIVE EditsFrom(_, _, _, _)
EditsFrom(reached, b, chars, k) ==
    IF b \in reached THEN k
    ELSE EditsFrom(reached \cup UNION {OneEdit(s, chars) : s \in reached}, b, chars, k + 1)

EditDistance(a, b) == EditsFrom({a}, b, Range(a) \cup Range(b), 0)

\* the classic recurrence on the prefixes a[1..i] and b[1..j]
RECURSIVE LevRecurrence(_, _, _, _)
LevRecurrence(a, b, i, j) ==
    IF i = 0 THEN j
    ELSE IF j = 0 THEN i
    ELSE Min(Min(LevRecurrence(a, b, i - 1, j) + 1, LevRecurrence(a, b, i, j - 1) + 1),
             LevRecurrence(a, b, i - 1, j - 1) + (IF a[i] = b[j] THEN 0 ELSE 1))

\* C16: calculateLevenshteinDistance(a, b) is the least number of
\* single-character insertions, deletions and substitutions that turn a into
\* b, which is the value of the classic recurrence.
C16_LevenshteinIsEditDistance ==
    LevReturned =>
        /\ call.ret[1] = EditDistance(call.s1, call.s2)
        /\ call.ret[1] = LevRecurrence(call.s1, call.s2, Len(call.s1), Len(call.s2))

\* strings of different lengths whose distance is more than the difference of
\* the lengths and less than the longer length
C16_Witness ==
    /\ LevReturned
    /\ Len(call.s1) = 2
    /\ Len(call.s2) = 3
    /\ call.ret[1] = 2

(***************************************************************************)
(* More properties of applyRedaction (checked under RedactSpec)            *)
(***************************************************************************)
\* no entity of the call occurs literally in the returned text
NoneOccursInResult ==
    \A k \in DOMAIN ar.entities : CountOcc(ar.currentText, ar.entities[k].text) = 0

\* C12: when r is the text a MASK call returned and no entity of the call
\* occurs literally in r, applyRedaction(r, E, MASK) returns r and an empty
\* list of resolved entities.
C12_MaskAgainChangesNothing ==
    (Returned /\ ar.mode = "MASK" /\ NoneOccursInResult) =>
        applyRedaction(ar.currentText, ar.entities, "MASK")
          = [hang |-> FALSE, redactedText |-> ar.currentText,
             entitiesWithIndices |-> <<>>]

\* a call that put a placeholder in the text has returned, and none of its
\* entities occurs in the result
C12_Witness ==
    /\ Returned
    /\ ar.mode = "MASK"
    /\ NoneOccursInResult
    /\ Len(ar.processedEntities) > 0
    /\ \E type \in EntityType : CountOcc(ar.currentText, Placeholder(type)) > 0
    /\ ar.currentText # ar.text

\* s without the spaces that follow a space
SpacesCollapsed(s) ==
    LET first == {i \in 1..Len(s) : ~ (s[i] = " " /\ i > 1 /\ s[i - 1] = " ")}
        rank(i) == Cardinality({j \in first : j <= i})
    IN  [k \in 1..Cardinality(first) |-> s[CHOOSE i \in first : rank(i) = k]]

\* s from its first to its last character that is no white space
EndsTrimmed(s) ==
    LET solid == {i \in 1..Len(s) : s[i] \notin WhiteSpace}
    IN  IF solid = {} THEN <<>>
        ELSE SubSeq(s, MinOf(solid), CHOOSE i \in solid : \A j \in solid : j <= i)

\* C13: with an empty entity sequence applyRedaction returns, in either mode,
\* no resolved entity and the input text with its runs of spaces collapsed and
\* its ends trimmed, nothing else changed; "aaa bbb" comes back as it is.
C13_NoEntitiesOnlyCleanup ==
    (Returned /\ ar.entities = <<>>) =>
        /\ ar.processedEntities = <<>>
        /\ ar.currentText = EndsTrimmed(SpacesCollapsed(ar.text))
        /\ ar.text = PlainText => ar.currentText = PlainText

\* a call without entities has returned "a  a" with its two spaces collapsed
C13_Witness ==
    /\ Returned
    /\ ar.entities = <<>>
    /\ ar.processedEntities = <<>>
    /\ ar.text = <<"a", " ", " ", "a">>
    /\ ar.currentText = <<"a", " ", "a">>

\* the entities in the order of the claim: longer texts first, entities of
\* equal text length in input order
ByPriority(entities) ==
    LET n == Len(entities)
        rank(i) == 1 + Cardinality({j \in 1..n :
                        \/ Len(entities[j].text) > Len(entities[i].text)
                        \/ Len(entities[j].text) = Len(entities[i].text) /\ j < i})
    IN  [q \in 1..n |-> entities[CHOOSE i \in 1..n : rank(i) = q]]

\* entity.text occurs in text at offset o
OccursAt(text, entity, o) ==
    /\ o + Len(entity.text) <= Len(text)
    /\ Slice(text, o, o + Len(entity.text)) = entity.text

IsResolved(entity, o) ==
    \E k \in DOMAIN ar.processedEntities : ar.processedEntities[k] = Resolved(entity, o)

\* the occurrence at o of the q-th entity in priority order overlaps no
\* occurrence that wins before it: none of an entity of higher priority, none
\* of its own entity further left
RECURSIVE Wins(_, _, _, _)
Wins(text, ordered, q, o) ==
    /\ OccursAt(text, ordered[q], o)
    /\ ~ \E q2 \in 1..q, o2 \in 0..Len(text) :
            /\ q2 < q \/ o2 < o
            /\ OccursAt(text, ordered[q2], o2)
            /\ RangesOverlap(Resolved(ordered[q], o), Resolved(ordered[q2], o2))
            /\ Wins(text, ordered, q2, o2)

\* C14 as stated: whenever an occurrence of an entity overlaps an occurrence
\* of another entity that comes later in the order (a shorter text, or an equal
\* length and a later place in the input), the first is resolved and the
\* second is dropped.
C14_LongerOccurrenceWins ==
    Returned =>
        LET ordered == ByPriority(ar.entities)
        IN  \A q1, q2 \in DOMAIN ordered :
              \A o1, o2 \in 0..Len(ar.text) :
                 ( /\ q1 < q2
                   /\ ordered[q1] # ordered[q2]
                   /\ OccursAt(ar.text, ordered[q1], o1)
                   /\ OccursAt(ar.text, ordered[q2], o2)
                   /\ RangesOverlap(Resolved(ordered[q1], o1), Resolved(ordered[q2], o2)) )
                 => (IsResolved(ordered[q1], o1) /\ ~ IsResolved(ordered[q2], o2))

\* C14 amended: the entities are processed longest text first, ties in input
\* order, and the occurrences of an entity left to right; an occurrence is
\* resolved exactly when it overlaps no occurrence resolved before it in that
\* order.  This holds of the occurrences decided so far at every point of the
\* pass; the returned list is in ascending order of startIndex.
C14_ResolvedInProcessingOrder ==
    Running =>
        LET ordered == ByPriority(ar.entities)
            decided == {d \in (DOMAIN ordered) \X (0..Len(ar.text)) :
                           \/ d[1] < ar.k
                           \/ d[1] = ar.k /\ d[2] < ar.searchIndex}
        IN  /\ ar.sortedEntities = ordered
            /\ Range(ar.processedEntities)
                 = {Resolved(ordered[d[1]], d[2]) :
                       d \in {w \in decided : Wins(ar.text, ordered, w[1], w[2])}}
            /\ Returned =>
                  \A j, k \in DOMAIN ar.processedEntities :
                     j < k => ar.processedEntities[j].startIndex
                                <= ar.processedEntities[k].startIndex

\* "aaa" with the entities "aa" and "a": "aa" at 1 was dropped for "aa" at 0,
\* and "a" at 2, which overlaps it, is resolved
C14_Witness ==
    /\ Returned
    /\ ar.text = <<"a", "a", "a">>
    /\ Len(ar.entities) = 2
    /\ ar.entities[1].text = <<"a">>
    /\ ar.entities[2].text = <<"a", "a">>
    /\ Len(ar.processedEntities) = 2
    /\ ar.processedEntities[1].endIndex = 2
    /\ ar.processedEntities[2].startIndex = 2

(***************************************************************************)
(* detectRegexEntities: the length filters of the phone and date scans     *)
(***************************************************************************)
IsDigits(text, from, to) ==
    \A p \in (from + 1)..to : text[p] \in Digit

\* the p-th character exists and is a letter, a digit or "_"
WordCharNo(text, p) ==
    p >= 1 /\ p <= Len(text) /\ text[p] \in AlphaNum \cup {"_"}

\* a boundary between a word character and a non-word character at offset o
AtWordBoundary(text, o) == WordCharNo(text, o) # WordCharNo(text, o + 1)

\* digits, "/" or "-", digits, "/" or "-", digits with group lengths g, from
\* offset s, between word boundaries
IsDateWith(text, s, g) ==
    LET e == s + g[1] + g[2] + g[3] + 2
    IN  /\ e <= Len(text)
        /\ IsDigits(text, s, s + g[1])
        /\ text[s + g[1] + 1] \in {"/", "-"}
        /\ IsDigits(text, s + g[1] + 1, s + g[1] + 1 + g[2])
        /\ text[s + g[1] + g[2] + 2] \in {"/", "-"}
        /\ IsDigits(text, s + g[1] + g[2] + 2, e)
        /\ AtWordBoundary(text, s)
        /\ AtWordBoundary(text, e)

DateGroups == (1..4) \X (1..2) \X (2..4)

DatesAt(text, s) == {g \in DateGroups : IsDateWith(text, s, g)}

\* the greedy choice: the longest first group, then second, then third
Greediest(G) ==
    CHOOSE g \in G : \A h \in G :
        \/ g[1] > h[1]
        \/ g[1] = h[1] /\ g[2] > h[2]
        \/ g[1] = h[1] /\ g[2] = h[2] /\ g[3] >= h[3]

\* the texts a left-to-right scan for dates finds from offset pos, each scan
\* resuming at the end of the previous find
RECURSIVE DateFinds(_, _)
DateFinds(text, pos) ==
    LET starts == {s \in pos..Len(text) : DatesAt(text, s) # {}}
    IN  IF starts = {} THEN <<>>
        ELSE LET s == MinOf(starts)
                 g == Greediest(DatesAt(text, s))
                 e == s + g[1] + g[2] + g[3] + 2
             IN  <<Slice(text, s, e)>> \o DateFinds(text, e)

DetectCall == call.fn = "detectRegexEntities"

\* C18: In the output of detectRegexEntities every PHONE_NUMBER entity has a
\* text of at least 10 characters, and the date recognizer pushes, in scan
\* order, exactly the finds of at most 10 characters of a left-to-right
\* non-overlapping scan for the date pattern: a longer find is consumed (the
\* scan resumes at its end) and pushes nothing.
C18_PhoneAndDateLengthFilters ==
    /\ [](DetectCall =>
            \A k \in DOMAIN call.entities :
                call.entities[k].type = "PHONE_NUMBER" => Len(call.entities[k].text) >= 10)
    /\ [][(DetectCall /\ call.pc = "date") =>
            LET pushed == SubSeq(call'.entities, Len(call.entities) + 1,
                                 Len(call'.entities))
                short  == SelectSeq(DateFinds(call.text, 0), LAMBDA m : Len(m) <= 10)
            IN  /\ call'.pc = "time"
                /\ SubSeq(call'.entities, 1, Len(call.entities)) = call.entities
                /\ pushed = [k \in DOMAIN short |->
                                [text |-> short[k], type |-> "DATE_TIME"]]
                /\ \A k \in DOMAIN pushed : Len(pushed[k].text) <= 10]_vars

\* the call on "555-555-2024 2024-20-2024-20-20" has returned the phone number
\* alone: the 12 characters "2024-20-2024" were consumed, so "2024-20-20",
\* which is a date at offset 21, was never found
C18_Witness ==
    /\ DetectCall
    /\ call.pc = "done"
    /\ call.text = LongDateText
    /\ DatesAt(call.text, 13) # {}
    /\ DatesAt(call.text, 21) # {}
    /\ call.entities = <<[text |-> Slice(LongDateText, 0, 12), type |-> "PHONE_NUMBER"]>>

(***************************************************************************)
(* applyRedaction: what the substitution pass leaves in the buffer         *)
(***************************************************************************)
NoEmptyEntity == \A k \in DOMAIN ar.entities : ar.entities[k].text # <<>>

\* C19: in REMOVE mode the returned redactedText contains no occurrence of
\* the text of any supplied entity, when no entity text is empty.
C19_RemoveLeavesNoOccurrence ==
    (Returned /\ ar.mode = "REMOVE" /\ NoEmptyEntity) =>
        \A k \in DOMAIN ar.entities : CountOcc(ar.currentText, ar.entities[k].text) = 0

AllButLast(entities) == SubSeq(entities, 1, Len(entities) - 1)

\* C20: when the text of the last entity x of the input does not occur in
\* the original text, the call returns the redactedText and the resolved
\* entities that the call without x returns.
C20_AbsentEntityHasNoEffect ==
    (/\ Returned
     /\ ar.entities # <<>>
     /\ CountOcc(ar.text, ar.entities[Len(ar.entities)].text) = 0) =>
        LET without == applyRedaction(ar.text, AllButLast(ar.entities), ar.mode)
        IN  /\ ~ without.hang
            /\ without.redactedText = ar.currentText
            /\ without.entitiesWithIndices = ar.processedEntities

(***************************************************************************)
(* computeWordDiff: the chunks against the tokens and a longest common     *)
(* subsequence, both stated without the tokenizer and without dp           *)
(***************************************************************************)
CharClass(c) ==
    IF c \in BlankChars THEN "blank"
    ELSE IF c \in PunctChars THEN "punct"
    ELSE IF c \in AlphaNum \cup {"_"} THEN "word"
    ELSE "other"

\* a token ends after the p-th character: at the end of the text, where the
\* class of the characters changes, and on either side of a punctuation mark
IsCutAfter(text, p) ==
    \/ p = Len(text)
    \/ CharClass(text[p]) # CharClass(text[p + 1])
    \/ CharClass(text[p]) = "punct"

RECURSIVE PiecesFrom(_, _)
PiecesFrom(text, from) ==
    IF from >= Len(text) THEN <<>>
    ELSE LET to == MinOf({p \in (from + 1)..Len(text) : IsCutAfter(text, p)})
         IN  <<Slice(text, from, to)>> \o PiecesFrom(text, to)

\* the values of seq at the positions picked, in order
Picked(seq, picks) ==
    LET nth(k) == CHOOSE i \in picks : Cardinality({j \in picks : j <= i}) = k
    IN  [k \in 1..Cardinality(picks) |-> seq[nth(k)]]

\* the lengths of the common subsequences of a and b
CommonLengths(a, b) ==
    {Cardinality(I) : I \in {I \in SUBSET (DOMAIN a) :
                                \E J \in SUBSET (DOMAIN b) : Picked(a, I) = Picked(b, J)}}

MaxOf(S) == CHOOSE x \in S : \A y \in S : x >= y

MatchValues(chunks) ==
    ChunkValues(SelectSeq(chunks, LAMBDA c : c.type = "match"))

\* C24: the values of actualChunks are the tokens of actual in order, of kinds
\* match and mismatch-actual only; those of expectedChunks are the tokens of
\* expected, of kinds match and mismatch-expected only; the match chunks of
\* the two sides have the same values in the same order, and there are as
\* many as a longest common subsequence of the two token sequences has.
C24_ChunksAreTokensWithLcsMatches ==
    DiffReturned =>
        /\ ChunkValues(call.actualChunks) = PiecesFrom(call.actual, 0)
        /\ ChunkValues(call.expectedChunks) = PiecesFrom(call.expected, 0)
        /\ ChunkTypes(call.actualChunks) \subseteq {"match", "mismatch-actual"}
        /\ ChunkTypes(call.expectedChunks) \subseteq {"match", "mismatch-expected"}
        /\ MatchValues(call.actualChunks) = MatchValues(call.expectedChunks)
        /\ Len(MatchValues(call.actualChunks))
             = MaxOf(CommonLengths(PiecesFrom(call.actual, 0), PiecesFrom(call.expected, 0)))

\* a returned diff of three tokens against two with one match and a mismatch
\* on either side
C24_Witness ==
    /\ DiffReturned
    /\ Len(call.actualChunks) = 3
    /\ Len(call.expectedChunks) = 2
    /\ Len(MatchValues(call.actualChunks)) = 1
    /\ "mismatch-actual" \in ChunkTypes(call.actualChunks)
    /\ "mismatch-expected" \in ChunkTypes(call.expectedChunks)

(***************************************************************************)
(* Properties of RedactionPanel (checked under PanelSpec)                  *)
(***************************************************************************)
NoRunInProgress == run.pc = "idle" /\ ~ panel.isProcessing

\* C21: whenever no processText run is in progress and entities is not empty,
\* redactedText is the redaction of inputText with entities under the mode
\* that is selected, also after a run during which the mode was changed.
C21_ShownTextIsOfCurrentMode ==
    (NoRunInProgress /\ Len(panel.entities) > 0) =>
        LET result == applyRedaction(panel.inputText, panel.entities, panel.mode)
        IN  /\ ~ result.hang
            /\ panel.redactedText = result.redactedText

\* C22: a comparisonDiff that is not null is the diff of the redactedText and
\* the expectedText on display.
C22_DiffIsOfShownTexts ==
    panel.comparisonDiff # <<>> =>
        LET diff == computeWordDiff(panel.redactedText, panel.expectedText)
        IN  /\ ~ diff.stuck
            /\ panel.comparisonDiff[1].actualChunks = diff.actualChunks
            /\ panel.comparisonDiff[1].expectedChunks = diff.expectedChunks

\* C23: a processText run that has set isProcessing is waiting for the
\* extractor at stage 'ai' until it resumes, no other run starts meanwhile,
\* and when the extractor settles, whatever it returns, the run ends with
\* isProcessing false and processingStage cleared.
C23_RunEndsAndClearsProcessing ==
    /\ [](panel.isProcessing => (run.pc = "awaiting" /\ panel.processingStage = "ai"))
    /\ [][(~ panel.isProcessing /\ panel'.isProcessing) =>
            (run.pc = "idle" /\ run'.pc = "awaiting")]_vars
    /\ [][run.pc = "awaiting" =>
            \/ /\ run' = run
               /\ panel'.isProcessing
               /\ panel'.processingStage = "ai"
            \/ /\ run'.pc = "idle"
               /\ ~ panel'.isProcessing
               /\ panel'.processingStage = ""]_vars

====
